---- MODULE Spec2Model ----
(***************************************************************************)
(* A model of the governance orchestrator of                               *)
(* src/backend/agents/orchestrator.py (class GovernanceOrchestrator):      *)
(* workflow creation, the execution planner, the level executor with its   *)
(* worker pool, the retry handling of a single task, result aggregation    *)
(* and the workflow lifecycle (execute / cancel).                          *)
(*                                                                         *)
(* The agent capability behind _call_agent_assessment is an external       *)
(* collaborator: an invocation either returns a result or raises, and it   *)
(* may take arbitrarily long (which is what lets as_completed time out).   *)
(***************************************************************************)
EXTENDS Integers, Sequences, FiniteSets, TLC

VARIABLES
    now,               \* the clock as last read: int(datetime.now().timestamp())
    agents,            \* self.agents: agent name -> agent instance
    workflows,         \* the workflow dicts ever built, in allocation order
    active_workflows,  \* self.active_workflows: id -> index into workflows
    workflow_history,  \* self.workflow_history: sequence of WorkflowResult
    calls,             \* the execute_workflow calls and where each one is
    jobs,              \* running / queued executions of _execute_single_task
    faults,            \* how many agent invocations have raised so far
    audit_log,         \* the entries sent to governance_db.log_audit_event
    reply,             \* what the query that has just run returned
    aggregator,        \* the state of one run of _aggregate_results
    planner            \* the state of one run of _create_execution_plan

vars == <<now, agents, workflows, active_workflows, workflow_history,
          calls, jobs, faults, audit_log, reply, aggregator, planner>>

orchestratorVars == <<now, agents, workflows, active_workflows,
                      workflow_history, calls, jobs, faults, audit_log>>

(***************************************************************************)
(* Bounds of the model.                                                    *)
(***************************************************************************)
MaxClock == 0
MaxWorkflows == 2
MaxCalls == 2
MaxFaults == 3
MaxCustomLen == 2
MaxTasks == 5
MaxPlanTasks == 3
MaxAggResults == 3
MaxLifecycleTasks == 3

(***************************************************************************)
(* Program constants.                                                      *)
(***************************************************************************)
CRITICAL == 1
HIGH == 2
MEDIUM == 3
LOW == 4
DefaultMaxRetries == 2
max_workers == 5

Priorities == {CRITICAL, HIGH, MEDIUM, LOW}

AgentNames == {"risk_agent", "bias_agent", "policy_agent", "audit_agent",
               "liability_protection_agent"}

WorkflowTypes == {"comprehensive_assessment", "risk_focused",
                  "compliance_check", "bias_audit", "rapid_screening"}

(***************************************************************************)
(* Python dicts as functions.                                              *)
(***************************************************************************)
EmptyMap == [x \in {} |-> 0]

MapPut(m, k, v) == [x \in (DOMAIN m) \cup {k} |-> IF x = k THEN v ELSE m[x]]

MapDel(m, k) == [x \in (DOMAIN m) \ {k} |-> m[x]]

MapUpdate(m, n) ==
    [x \in (DOMAIN m) \cup (DOMAIN n) |-> IF x \in DOMAIN n THEN n[x] ELSE m[x]]


(***************************************************************************)
(* AgentTask.  depends_on (a list, or None) is kept as the set of its      *)
(* names; None and [] are both the empty set (both are falsy).  The        *)
(* dataclass compares by value, which is record equality here.             *)
(***************************************************************************)
AgentTask(agent_type, priority, depends_on) ==
    [agent_type  |-> agent_type,
     priority    |-> priority,
     depends_on  |-> depends_on,
     retry_count |-> 0,
     max_retries |-> DefaultMaxRetries]

(***************************************************************************)
(* _create_execution_plan.  The plan is a sequence of levels; a level is a *)
(* sequence of indices into the task list (the plan holds the task objects *)
(* of the workflow themselves, not copies).                                *)
(***************************************************************************)

\* list.remove(task): drops the first element that compares equal to task.
RECURSIVE ListRemove(_, _, _)
ListRemove(tasks, s, k) ==
    IF s = << >> THEN << >>
    ELSE IF tasks[Head(s)] = tasks[k] THEN Tail(s)
    ELSE <<Head(s)>> \o ListRemove(tasks, Tail(s), k)

\* A mutant of IsReady: any() where the code has all().
IsReadyAny(task, completed_agents) ==
    \/ task.depends_on = {}
    \/ \E dep \in task.depends_on : dep \in completed_agents

\* not task.depends_on or all(dep in completed_agents for dep in task.depends_on)
IsReady(task, completed_agents) ==
    \/ task.depends_on = {}
    \/ \A dep \in task.depends_on : dep \in completed_agents

\* A mutant of ScanReady: the loop runs over remaining_tasks itself, so a
\* removal makes it skip the task that follows.
RECURSIVE ScanReadyLive(_, _, _, _, _, _)
ScanReadyLive(tasks, snapshot, i, completed_agents, current_level, remaining) ==
    IF i > Len(remaining)
    THEN [current_level |-> current_level, remaining |-> remaining]
    ELSE IF IsReady(tasks[remaining[i]], completed_agents)
         THEN ScanReadyLive(tasks, snapshot, i + 1, completed_agents,
                            Append(current_level, remaining[i]),
                            ListRemove(tasks, remaining, remaining[i]))
         ELSE ScanReadyLive(tasks, snapshot, i + 1, completed_agents,
                            current_level, remaining)

\* for task in remaining_tasks[:]: the loop runs over a copy (snapshot) and
\* removes from the list itself.
RECURSIVE ScanReady(_, _, _, _, _, _)
ScanReady(tasks, snapshot, i, completed_agents, current_level, remaining) ==
    IF i > Len(snapshot)
    THEN [current_level |-> current_level, remaining |-> remaining]
    ELSE IF IsReady(tasks[snapshot[i]], completed_agents)
         THEN ScanReady(tasks, snapshot, i + 1, completed_agents,
                        Append(current_level, snapshot[i]),
                        ListRemove(tasks, remaining, snapshot[i]))
         ELSE ScanReady(tasks, snapshot, i + 1, completed_agents,
                        current_level, remaining)

\* A mutant of FallbackLevel: remaining_tasks.clear() through the alias
\* empties the level too.
FallbackLevelAliased(remaining) == << >>

\* A mutant of FallbackLevel: only the first of the remaining tasks gets
\* into the level.
FallbackLevelFirst(remaining) == <<Head(remaining)>>

\* current_level = remaining_tasks; remaining_tasks = []
FallbackLevel(remaining) == remaining

\* current_level.sort(key=lambda x: x.priority.value): a stable sort.
SortByPriority(tasks, level) ==
    LET Bucket(p) == SelectSeq(level, LAMBDA k : tasks[k].priority = p)
    IN  Bucket(CRITICAL) \o Bucket(HIGH) \o Bucket(MEDIUM) \o Bucket(LOW)

PlanStart(tasks) ==
    [tasks            |-> tasks,
     remaining        |-> [i \in 1..Len(tasks) |-> i],
     completed_agents |-> {},
     execution_levels |-> << >>,
     iterations       |-> 0,
     fallback         |-> FALSE,
     pc               |-> "loop"]

\* One iteration of `while remaining_tasks:`.
PlanStep(st) ==
    LET scan  == ScanReady(st.tasks, st.remaining, 1, st.completed_agents,
                           << >>, st.remaining)
        stuck == scan.current_level = << >>
        level == IF stuck THEN FallbackLevel(scan.remaining)
                          ELSE scan.current_level
        left  == IF stuck THEN << >> ELSE scan.remaining
        sorted == SortByPriority(st.tasks, level)
    IN  [st EXCEPT
            !.remaining        = left,
            !.execution_levels = Append(@, sorted),
            !.completed_agents =
                @ \cup {st.tasks[sorted[i]].agent_type : i \in DOMAIN sorted},
            !.iterations       = @ + 1,
            !.fallback         = @ \/ stuck]

RECURSIVE PlanLoop(_)
PlanLoop(st) == IF st.remaining = << >> THEN st ELSE PlanLoop(PlanStep(st))

CreateExecutionPlan(tasks) == PlanLoop(PlanStart(tasks)).execution_levels

(***************************************************************************)
(* The planner on its own: any task list within the bounds, with cyclic    *)
(* dependencies, dependencies on names that are no task and repeated       *)
(* names.                                                                  *)
(***************************************************************************)
PlanAgents == {"risk_agent", "bias_agent"}
PlanDepNames == {"risk_agent", "bias_agent", "policy_agent"}
PlanPriorities == {CRITICAL, HIGH}

PlanDependencies == {d \in SUBSET PlanDepNames : Cardinality(d) <= 2}

PlanTaskUniverse ==
    {AgentTask(a, p, d) : a \in PlanAgents, p \in PlanPriorities,
                          d \in PlanDependencies}

PlanTaskLists == UNION {[1..n -> PlanTaskUniverse] : n \in 0..MaxPlanTasks}

PlanIdle == [PlanStart(<< >>) EXCEPT !.pc = "idle"]

PlanIterate ==
    /\ planner.pc = "loop"
    /\ planner.remaining /= << >>
    /\ planner.iterations <= Len(planner.tasks)
    /\ planner' = PlanStep(planner)
    /\ UNCHANGED <<orchestratorVars, reply, aggregator>>

PlanReturn ==
    /\ planner.pc = "loop"
    /\ planner.remaining = << >>
    /\ planner' = [planner EXCEPT !.pc = "done"]
    /\ UNCHANGED <<orchestratorVars, reply, aggregator>>

(***************************************************************************)
(* _create_workflow_tasks.                                                 *)
(***************************************************************************)
TemplateTasks(workflow_type) ==
    CASE workflow_type = "comprehensive_assessment" ->
           <<AgentTask("risk_agent", CRITICAL, {}),
             AgentTask("bias_agent", HIGH, {"risk_agent"}),
             AgentTask("policy_agent", HIGH, {"risk_agent"}),
             AgentTask("audit_agent", MEDIUM,
                       {"risk_agent", "bias_agent", "policy_agent"}),
             AgentTask("liability_protection_agent", LOW, {"audit_agent"})>>
      [] workflow_type = "risk_focused" ->
           <<AgentTask("risk_agent", CRITICAL, {}),
             AgentTask("liability_protection_agent", HIGH, {"risk_agent"})>>
      [] workflow_type = "compliance_check" ->
           <<AgentTask("policy_agent", CRITICAL, {}),
             AgentTask("audit_agent", HIGH, {"policy_agent"})>>
      [] workflow_type = "bias_audit" ->
           <<AgentTask("bias_agent", CRITICAL, {}),
             AgentTask("audit_agent", HIGH, {"bias_agent"})>>
      [] workflow_type = "rapid_screening" ->
           <<AgentTask("risk_agent", CRITICAL, {})>>
      [] OTHER -> << >>

\* custom_agents is None or a list: the empty set for None, {l} for the
\* list l.
None == {}

\* `if custom_agents:` is false for None and for the empty list.
Truthy(custom_agents) ==
    \E l \in custom_agents : l /= << >>

CreateWorkflowTasks(workflow_type, custom_agents, registry) ==
    LET tasks ==
          IF Truthy(custom_agents)
          THEN LET listed == CHOOSE l \in custom_agents : TRUE
                   registered ==
                       SelectSeq(listed, LAMBDA a : a \in DOMAIN registry)
               IN  [i \in DOMAIN registered |->
                        AgentTask(registered[i], HIGH, {})]
          ELSE TemplateTasks(workflow_type)
    IN  SelectSeq(tasks, LAMBDA t : t.agent_type \in DOMAIN registry)

(***************************************************************************)
(* _generate_workflow_id: f"workflow_{timestamp}_{len(active_workflows)}". *)
(* The two numbers are printed in decimal around an underscore, so the     *)
(* string is determined by, and determines, the pair.                      *)
(***************************************************************************)
GenerateWorkflowId(timestamp, registry) ==
    <<timestamp, Cardinality(DOMAIN registry)>>

NoId == <<-1, -1>>

(***************************************************************************)
(* _aggregate_results: the overall risk level, the overall compliance and  *)
(* the lists of agents.  With no completed result the early return carries *)
(* only a status and a message.  A result is a dict; its assessment_data   *)
(* is a dict that may or may not have a risk_level and a                   *)
(* compliance_status.                                                      *)
(***************************************************************************)

\* risk_priority.get(x, 0)
RiskPriority(x) ==
    CASE x = "critical" -> 4
      [] x = "high"     -> 3
      [] x = "medium"   -> 2
      [] x = "low"      -> 1
      [] OTHER          -> 0

\* The place of a level in the order of the strings themselves.
LexicalOrder(x) ==
    CASE x = "critical" -> 1
      [] x = "high"     -> 2
      [] x = "low"      -> 3
      [] x = "medium"   -> 4
      [] OTHER          -> 5

\* A mutant of OverallRisk: max(risk_levels) without the key.
OverallRiskLexical(risk_levels) ==
    IF risk_levels = {} THEN "low"
    ELSE CHOOSE r \in risk_levels :
             \A q \in risk_levels : LexicalOrder(r) >= LexicalOrder(q)

\* overall_risk = 'low'; if risk_levels: max(risk_levels, key=risk_priority).
\* risk_levels is the set of the collected levels: max() returns the first
\* of the levels of the highest priority, and levels of one priority are
\* one and the same string unless two different unranked strings occur.
OverallRisk(risk_levels) ==
    IF risk_levels = {} THEN "low"
    ELSE CHOOSE r \in risk_levels :
             \A q \in risk_levels : RiskPriority(r) >= RiskPriority(q)

\* A mutant of OverallCompliance: 'partial' is looked for first.
OverallCompliancePartialFirst(compliance_statuses) ==
    IF compliance_statuses = {} THEN "unknown"
    ELSE IF "partial" \in compliance_statuses THEN "partial"
    ELSE IF "non_compliant" \in compliance_statuses THEN "non_compliant"
    ELSE IF \A status \in compliance_statuses : status = "compliant"
         THEN "compliant"
    ELSE "unknown"

OverallCompliance(compliance_statuses) ==
    IF compliance_statuses = {} THEN "unknown"
    ELSE IF "non_compliant" \in compliance_statuses THEN "non_compliant"
    ELSE IF "partial" \in compliance_statuses THEN "partial"
    ELSE IF \A status \in compliance_statuses : status = "compliant"
         THEN "compliant"
    ELSE "unknown"

\* The values the successful results report under `key`.
Collected(agent_results, successful, key) ==
    {agent_results[a].assessment_data[key] :
        a \in {b \in successful :
                  key \in DOMAIN agent_results[b].assessment_data}}

\* A mutant of AggregateResults: without the early return.
AggregateResultsUnguarded(agent_results, workflow_type) ==
    LET successful ==
          {a \in DOMAIN agent_results : agent_results[a].status = "completed"}
    IN  [overall_status     |-> "completed",
         overall_risk_level |->
             OverallRisk(Collected(agent_results, successful, "risk_level")),
         overall_compliance |->
             OverallCompliance(Collected(agent_results, successful,
                                         "compliance_status")),
         agents_consulted   |-> successful,
         failed_agents      |->
             {a \in DOMAIN agent_results :
                  agent_results[a].status /= "completed"},
         workflow_type      |-> workflow_type]

AggregateResults(agent_results, workflow_type) ==
    LET successful ==
          {a \in DOMAIN agent_results : agent_results[a].status = "completed"}
    IN  IF successful = {}
        THEN [overall_status |-> "failed",
              message        |-> "No agents completed successfully"]
        ELSE [overall_status     |-> "completed",
              overall_risk_level |->
                  OverallRisk(Collected(agent_results, successful,
                                        "risk_level")),
              overall_compliance |->
                  OverallCompliance(Collected(agent_results, successful,
                                              "compliance_status")),
              agents_consulted   |-> successful,
              failed_agents      |->
                  {a \in DOMAIN agent_results :
                       agent_results[a].status /= "completed"},
              workflow_type      |-> workflow_type]

\* _log_workflow_completion: the log_data handed to the audit sink
\* (dict.get gives None for a key the assessment does not have).
LogWorkflowCompletion(result) ==
    LET assessment == result.aggregated_assessment
    IN  [workflow_id        |-> result.workflow_id,
         workflow_type      |-> result.workflow_type,
         agents_used        |-> result.agents_executed,
         overall_risk       |->
             IF "overall_risk_level" \in DOMAIN assessment
             THEN assessment.overall_risk_level ELSE "None",
         overall_compliance |->
             IF "overall_compliance" \in DOMAIN assessment
             THEN assessment.overall_compliance ELSE "None"]

(***************************************************************************)
(* One attempt of _execute_single_task, given how the agent call ended:    *)
(* it returned a dict with status completed ("completed"), it returned a   *)
(* dict with status failed ("failed"), or it raised ("raise").  `attempt`  *)
(* numbers the invocation and stands for the exception's text.             *)
(***************************************************************************)
\* What _call_agent_assessment returns (the placeholder's assessment_data).
MockAssessment == [risk_level |-> "medium", compliance_status |-> "partial"]

\* The dict an agent returns on success.
Completed(agent_type, assessment_data) ==
    [status          |-> "completed",
     error           |-> 0,
     agent_type      |-> agent_type,
     assessment_data |-> assessment_data]

\* The dict _execute_single_task builds when the retries are used up; it
\* has no assessment_data (the empty dict stands for the missing key, which
\* is only ever read with .get('assessment_data', {})).
Failed(agent_type, error) ==
    [status          |-> "failed",
     error           |-> error,
     agent_type      |-> agent_type,
     assessment_data |-> EmptyMap]

NoTaskResult ==
    [status |-> "none", error |-> 0, agent_type |-> "",
     assessment_data |-> EmptyMap]

\* A mutant of BuildInput: previous_results is put into task.input_data
\* itself, which is the system_context dict of the workflow.
BuildInputInPlace(task, previous_results, input_data) ==
    IF task.depends_on /= {}
    THEN LET input_data_2 ==
               MapPut(input_data, "previous_results",
                      [dep \in task.depends_on |->
                          IF dep \in DOMAIN previous_results
                          THEN previous_results[dep] ELSE NoTaskResult])
         IN  [input |-> input_data_2, context |-> input_data_2]
    ELSE [input |-> input_data, context |-> input_data]

\* The first lines of _execute_single_task: the input of the agent, and
\* what has become of task.input_data, the dict that every task of the
\* workflow shares with the workflow's system_context.  NoTaskResult stands
\* for the None of previous_results.get(dep).
BuildInput(task, previous_results, input_data) ==
    IF task.depends_on /= {}
    THEN [input   |-> MapPut(input_data, "previous_results",
                             [dep \in task.depends_on |->
                                 IF dep \in DOMAIN previous_results
                                 THEN previous_results[dep]
                                 ELSE NoTaskResult]),
          context |-> input_data]
    ELSE [input |-> input_data, context |-> input_data]

\* A mutant of ExecuteSingleTaskStep: with the retries used up the
\* exception is raised again instead of being turned into a Result.
ExecuteSingleTaskStepReraise(task, outcome, attempt) ==
    IF outcome = "raise"
    THEN IF task.retry_count < task.max_retries
         THEN [kind |-> "retry", result |-> NoTaskResult]
         ELSE [kind |-> "raise", result |-> NoTaskResult]
    ELSE IF outcome = "failed"
         THEN [kind |-> "return", result |-> Failed(task.agent_type, 0)]
         ELSE [kind   |-> "return",
               result |-> Completed(task.agent_type, MockAssessment)]

ExecuteSingleTaskStep(task, outcome, attempt) ==
    IF outcome = "raise"
    THEN IF task.retry_count < task.max_retries
         THEN [kind |-> "retry", result |-> NoTaskResult]
         ELSE [kind   |-> "return",
               result |-> Failed(task.agent_type, attempt)]
    ELSE IF outcome = "failed"
         THEN [kind |-> "return", result |-> Failed(task.agent_type, 0)]
         ELSE [kind   |-> "return",
               result |-> Completed(task.agent_type, MockAssessment)]

(***************************************************************************)
(* An execute_workflow call.                                               *)
(*   pc      idle | executing | cleanup | returned | raised                *)
(*   obj     the workflow dict the call holds (local variable workflow)    *)
(*   results the dict of _execute_tasks; level_results the dict of         *)
(*           _execute_parallel_tasks                                       *)
(*   outcomes (history) task index -> how its execution ended, after how   *)
(*           many invocations, how the last invocation ended and what its  *)
(*           input was                                                     *)
(***************************************************************************)
NoResult == [status |-> "none"]

IdleCall ==
    [pc            |-> "idle",
     workflow_id   |-> NoId,
     obj           |-> 0,
     plan          |-> << >>,
     level         |-> 0,
     results       |-> EmptyMap,
     level_results |-> EmptyMap,
     outcomes      |-> EmptyMap,
     error         |-> "",
     result        |-> NoResult]

\* The jobs of one level: a level of one task runs inline in the caller,
\* the tasks of a larger level are submitted to the executor.
LevelJobs(c, level) ==
    {[call     |-> c,
      task     |-> level[i],
      inline   |-> Len(level) = 1,
      state    |-> IF Len(level) = 1 THEN "running" ELSE "queued",
      attempts |-> 0] : i \in DOMAIN level}

\* A mutant of LevelComplete: the collecting loop stops at the first result.
LevelCompleteFirst(c, js) == TRUE

\* A mutant of LevelComplete: the collecting loop waits for one future more
\* than were submitted.
LevelCompleteNever(c, js) == FALSE

\* The loop over as_completed(futures) ends when every future was yielded.
LevelComplete(c, js) == \A j \in js : j.call /= c

\* A worker of the ThreadPoolExecutor is free.
PoolFree ==
    Cardinality({j \in jobs : ~j.inline /\ j.state = "running"}) < max_workers

WorkflowResult(cr, wf) ==
    [workflow_id           |-> cr.workflow_id,
     workflow_type         |-> wf.type,
     status                |-> "completed",
     agent_results         |-> cr.results,
     aggregated_assessment |-> AggregateResults(cr.results, wf.type),
     agents_executed       |-> DOMAIN cr.results,
     total_agents          |-> Len(wf.tasks)]

\* What execute_workflow does once the current level of call c is done
\* (cr, wfs, js: the call, the workflows and the jobs as they are by then):
\* the next level starts, or the results are aggregated, the workflow is
\* marked completed and the WorkflowResult is appended to the history.
Proceed(c, cr, wfs, js) ==
    IF cr.level < Len(cr.plan)
    THEN /\ calls' = [calls EXCEPT ![c] =
                        [cr EXCEPT !.level = @ + 1,
                                   !.level_results = EmptyMap]]
         /\ jobs' = js \cup LevelJobs(c, cr.plan[cr.level + 1])
         /\ workflows' = wfs
         /\ UNCHANGED workflow_history
    ELSE LET wr == WorkflowResult(cr, wfs[cr.obj])
         IN  /\ calls' = [calls EXCEPT ![c] =
                            [cr EXCEPT !.pc = "cleanup", !.result = wr]]
             /\ jobs' = js
             /\ workflows' = [wfs EXCEPT ![cr.obj].status = "completed"]
             /\ workflow_history' = Append(workflow_history, wr)

\* The jobs a call leaves behind in the executor when an exception ends it:
\* they run on, and nobody reads their futures (nor counts their attempts).
Abandoned(c, js) ==
    {IF j.call = c THEN [j EXCEPT !.attempts = 0] ELSE j : j \in js}

\* The except clause of execute_workflow.
Fail(c, cr, wfs, js, error) ==
    /\ calls' = [calls EXCEPT ![c] =
                    [IdleCall EXCEPT !.pc = "raised",
                                     !.workflow_id = cr.workflow_id,
                                     !.obj = cr.obj,
                                     !.error = error]]
    /\ workflows' = [wfs EXCEPT ![cr.obj].status = "failed",
                                ![cr.obj].error = error]
    /\ jobs' = Abandoned(c, js)
    /\ UNCHANGED workflow_history

(***************************************************************************)
(* The operations.                                                         *)
(***************************************************************************)
CustomAgentNames == {"risk_agent"}

CustomAgentLists == [1..MaxCustomLen -> CustomAgentNames]

RECURSIVE TotalTasks(_)
TotalTasks(wfs) ==
    IF wfs = << >> THEN 0 ELSE Len(Head(wfs).tasks) + TotalTasks(Tail(wfs))

SystemContexts == {[system_id |-> "system_1"]}

\* timestamp: what the clock shows at the call; it never runs backwards.
CreateWorkflow(workflow_type, system_context, custom_agents, timestamp) ==
    /\ Len(workflows) < MaxWorkflows
    /\ timestamp >= now
    /\ now' = timestamp
    /\ LET workflow_id == GenerateWorkflowId(timestamp, active_workflows)
           tasks == CreateWorkflowTasks(workflow_type, custom_agents, agents)
           workflow == [id     |-> workflow_id,
                        type   |-> workflow_type,
                        system_context |-> system_context,
                        tasks  |-> tasks,
                        status |-> "created",
                        error  |-> "",
                        results  |-> EmptyMap,
                        metadata |-> [total_tasks     |-> Len(tasks),
                                      completed_tasks |-> 0,
                                      failed_tasks    |-> 0],
                        \* (history) the argument of create_workflow
                        custom_agents |-> custom_agents]
       IN  /\ workflows' = Append(workflows, workflow)
           /\ active_workflows' =
                  MapPut(active_workflows, workflow_id, Len(workflows) + 1)
    /\ UNCHANGED <<agents, workflow_history, calls, jobs, faults, audit_log,
                   aggregator, planner>>

\* The callers do not run execute_workflow twice at the same time for one
\* workflow id (the lifecycle calls of one workflow are sequential).
InProgress(workflow_id) ==
    \E c \in DOMAIN calls :
        /\ calls[c].pc \in {"executing", "cleanup"}
        /\ calls[c].workflow_id = workflow_id

\* A mutant of NotFound: the workflow is looked up among all the workflow
\* dicts and the except clause marks it failed.
NotFoundMarked(c, workflow_id) ==
    /\ calls' = [calls EXCEPT ![c] =
                    [IdleCall EXCEPT !.pc = "raised",
                                     !.workflow_id = workflow_id,
                                     !.error = "ValueError"]]
    /\ workflows' = [o \in DOMAIN workflows |->
                        IF workflows[o].id = workflow_id
                        THEN [workflows[o] EXCEPT !.status = "failed"]
                        ELSE workflows[o]]
    /\ UNCHANGED <<workflow_history, jobs>>

\* raise ValueError(f"Workflow {workflow_id} not found"), before anything
\* else is done.
NotFound(c, workflow_id) ==
    /\ calls' = [calls EXCEPT ![c] =
                    [IdleCall EXCEPT !.pc = "raised",
                                     !.workflow_id = workflow_id,
                                     !.error = "ValueError"]]
    /\ UNCHANGED <<workflows, workflow_history, jobs>>

ExecuteWorkflow(c, workflow_id) ==
    /\ calls[c].pc = "idle"
    /\ \A b \in 1..(c - 1) : calls[b].pc /= "idle"
    /\ ~InProgress(workflow_id)
    /\ IF workflow_id \notin DOMAIN active_workflows
       THEN NotFound(c, workflow_id)
       ELSE LET o   == active_workflows[workflow_id]
                wfs == [workflows EXCEPT ![o].status = "running"]
                cr  == [IdleCall EXCEPT
                           !.pc = "executing",
                           !.workflow_id = workflow_id,
                           !.obj = o,
                           !.plan = CreateExecutionPlan(workflows[o].tasks)]
            IN  Proceed(c, cr, wfs, jobs)
    /\ UNCHANGED <<now, agents, active_workflows, faults, audit_log,
                   aggregator, planner>>

\* A mutant of Start: every execute_workflow call has max_workers workers
\* of its own.
StartPerCall(j) ==
    /\ j \in jobs
    /\ j.state = "queued"
    /\ Cardinality({i \in jobs : /\ ~i.inline
                                 /\ i.state = "running"
                                 /\ i.call = j.call}) < max_workers
    /\ jobs' = (jobs \ {j}) \cup {[j EXCEPT !.state = "running"]}
    /\ UNCHANGED <<now, agents, workflows, active_workflows, workflow_history,
                   calls, faults, audit_log, aggregator, planner>>

\* A worker of the executor takes the submitted job j from the work queue
\* and begins to run _execute_single_task.
Start(j) ==
    /\ j \in jobs
    /\ j.state = "queued"
    /\ PoolFree
    /\ jobs' = (jobs \ {j}) \cup {[j EXCEPT !.state = "running"]}
    /\ UNCHANGED <<now, agents, workflows, active_workflows, workflow_history,
                   calls, faults, audit_log, aggregator, planner>>

\* A mutant of Retried: the workflows share the task objects of an agent,
\* so the count moves for every workflow that has a task of the agent.
RetriedShared(wfs, o, k) ==
    [p \in DOMAIN wfs |->
        [wfs[p] EXCEPT !.tasks =
            [i \in DOMAIN wfs[p].tasks |->
                IF wfs[p].tasks[i].agent_type = wfs[o].tasks[k].agent_type
                THEN [wfs[p].tasks[i] EXCEPT !.retry_count = @ + 1]
                ELSE wfs[p].tasks[i]]]]

\* task.retry_count += 1, on the task object of workflow dict o.
Retried(wfs, o, k) == [wfs EXCEPT ![o].tasks[k].retry_count = @ + 1]

\* One invocation of the agent by job j (_call_agent_assessment inside
\* _execute_single_task), and what follows from how it ended.
Invoke(j, outcome) ==
    /\ j \in jobs
    /\ j.state = "running" \/ PoolFree
    /\ outcome = "raise" => faults < MaxFaults
    /\ LET c    == j.call
           cr   == calls[c]
           task == workflows[cr.obj].tasks[j.task]
           n    == IF cr.pc = "executing" THEN j.attempts + 1 ELSE 0
           built == BuildInput(task, cr.results,
                               workflows[cr.obj].system_context)
           wfs  == [workflows EXCEPT ![cr.obj].system_context = built.context]
           step == ExecuteSingleTaskStep(task, outcome, n)
           rest == jobs \ {j}
           result == IF step.kind = "raise"
                     THEN Failed(task.agent_type, n)
                     ELSE step.result
       IN  /\ faults' = IF outcome = "raise" THEN faults + 1 ELSE faults
           /\ CASE step.kind = "retry" ->
                     /\ workflows' = Retried(wfs, cr.obj, j.task)
                     /\ jobs' = rest \cup
                            {[j EXCEPT !.state = "running", !.attempts = n]}
                     /\ UNCHANGED <<calls, workflow_history>>
                [] step.kind = "raise" /\ j.inline /\ cr.pc = "executing" ->
                     Fail(c, cr, wfs, rest, "AgentError")
                [] step.kind /= "retry" /\ cr.pc /= "executing" ->
                     \* the caller has left: nobody reads the future
                     /\ jobs' = rest
                     /\ workflows' = wfs
                     /\ UNCHANGED <<calls, workflow_history>>
                [] OTHER ->
                     LET noted == [cr EXCEPT !.outcomes =
                                      MapPut(@, j.task,
                                             [status   |-> result.status,
                                              attempts |-> n,
                                              signal   |-> outcome,
                                              input    |-> built.input])]
                         got == IF j.inline
                                THEN [noted EXCEPT !.results =
                                        MapPut(@, task.agent_type, result)]
                                ELSE [noted EXCEPT !.level_results =
                                        MapPut(@, task.agent_type, result)]
                     IN  IF j.inline \/ LevelComplete(c, rest)
                         THEN Proceed(c,
                                  [got EXCEPT !.results =
                                      MapUpdate(@, got.level_results)],
                                  wfs, rest)
                         ELSE /\ calls' = [calls EXCEPT ![c] = got]
                              /\ jobs' = rest
                              /\ workflows' = wfs
                              /\ UNCHANGED workflow_history
    /\ UNCHANGED <<now, agents, active_workflows, audit_log, aggregator,
                   planner>>

\* as_completed(futures, timeout=...) raises TimeoutError while futures of
\* the level are outstanding; nothing in _execute_parallel_tasks or
\* _execute_tasks catches it.
Timeout(c) ==
    /\ calls[c].pc = "executing"
    /\ \E j \in jobs : j.call = c /\ ~j.inline
    /\ Fail(c, calls[c], workflows, jobs, "TimeoutError")
    /\ UNCHANGED <<now, agents, active_workflows, faults, audit_log,
                   aggregator, planner>>

\* The end of execute_workflow's try block after the history append:
\* del self.active_workflows[workflow_id], a KeyError when the id is gone;
\* then the audit entry is sent and the WorkflowResult returned (an
\* exception of the audit sink is caught and logged).
Cleanup(c) ==
    /\ calls[c].pc = "cleanup"
    /\ IF calls[c].workflow_id \in DOMAIN active_workflows
       THEN /\ active_workflows' =
                   MapDel(active_workflows, calls[c].workflow_id)
            /\ calls' = [calls EXCEPT ![c] =
                           [IdleCall EXCEPT
                               !.pc = "returned",
                               !.workflow_id = calls[c].workflow_id,
                               !.obj = calls[c].obj,
                               !.result = calls[c].result]]
            /\ audit_log' =
                   Append(audit_log, LogWorkflowCompletion(calls[c].result))
            /\ UNCHANGED <<workflows, workflow_history, jobs>>
       ELSE /\ Fail(c, calls[c], workflows, jobs, "KeyError")
            /\ UNCHANGED <<active_workflows, audit_log>>
    /\ UNCHANGED <<now, agents, faults, aggregator, planner>>

CancelWorkflow(workflow_id) ==
    /\ workflow_id \in DOMAIN active_workflows
    /\ workflows' = [workflows EXCEPT
                        ![active_workflows[workflow_id]].status = "cancelled"]
    /\ active_workflows' = MapDel(active_workflows, workflow_id)
    /\ UNCHANGED <<now, agents, workflow_history, calls, jobs, faults,
                   audit_log, aggregator, planner>>

(***************************************************************************)
(* register_agent and health_check.  An agent instance is an object that   *)
(* inherits from BaseGovernanceAgent; NotAnAgent is one that does not.     *)
(* How the health check of an agent ends is the agent's affair: it returns *)
(* True or False, or it raises.                                            *)
(***************************************************************************)
AgentInstances == {"agent_a", "agent_b"}

NotAnAgent == "not_an_agent"

\* The registry of OrchestratorFactory.create_standard_orchestrator.
StandardAgents == [a \in AgentNames |-> "agent_a"]

\* What register_agent did: its arguments, the exception it raised if any
\* and (history) the instance the name had before.
RegisterReply(agent_type, agent_instance, error) ==
    [source         |-> "register_agent",
     agent_type     |-> agent_type,
     agent_instance |-> agent_instance,
     error          |-> error,
     prior          |-> IF agent_type \in DOMAIN agents
                        THEN agents[agent_type] ELSE "none"]

\* A mutant of RegisterAgent: self.agents.setdefault(agent_type, instance).
RegisterAgentKeepFirst(agent_type, agent_instance) ==
    /\ IF agent_instance \notin AgentInstances
       THEN /\ reply' = RegisterReply(agent_type, agent_instance, "ValueError")
            /\ UNCHANGED agents
       ELSE /\ agents' = IF agent_type \in DOMAIN agents THEN agents
                         ELSE MapPut(agents, agent_type, agent_instance)
            /\ reply' = RegisterReply(agent_type, agent_instance, "")
    /\ UNCHANGED <<now, workflows, active_workflows, workflow_history, calls,
                   jobs, faults, audit_log, aggregator, planner>>

RegisterAgent(agent_type, agent_instance) ==
    /\ IF agent_instance \notin AgentInstances
       THEN /\ reply' = RegisterReply(agent_type, agent_instance, "ValueError")
            /\ UNCHANGED agents
       ELSE /\ agents' = MapPut(agents, agent_type, agent_instance)
            /\ reply' = RegisterReply(agent_type, agent_instance, "")
    /\ UNCHANGED <<now, workflows, active_workflows, workflow_history, calls,
                   jobs, faults, audit_log, aggregator, planner>>

HealthOutcomes == {"true", "false", "raise"}

\* A mutant of AgentHealth: only an explicit False counts as unhealthy.
AgentHealthOptimistic(outcome) == outcome /= "false"

\* agent_health[agent_type] = agent.health_check(), and False in the except
\* clause.
AgentHealth(outcome) == outcome = "true"

\* health: how the health check of each registered agent ends this time.
HealthCheck(health) ==
    /\ LET agent_health == [a \in DOMAIN agents |-> AgentHealth(health[a])]
       IN  reply' =
               [source              |-> "health_check",
                orchestrator_status |-> "healthy",
                agent_health        |-> agent_health,
                healthy_agents      |->
                    Cardinality({a \in DOMAIN agent_health : agent_health[a]}),
                total_agents        |-> Cardinality(DOMAIN agent_health),
                active_workflows    |-> Cardinality(DOMAIN active_workflows),
                \* (history) how the agents' health checks ended
                outcomes            |-> health]
    /\ UNCHANGED <<orchestratorVars, aggregator, planner>>

(***************************************************************************)
(* get_workflow_status: the active registry first, then the first entry of *)
(* the history with the id, then the not-found dict.                       *)
(***************************************************************************)
NoReply == [source |-> "none", id |-> NoId, status |-> ""]

\* A mutant of WorkflowStatus: the status is taken from the workflow dict
\* wherever it is, in the registry or not.
WorkflowStatusOfAny(workflow_id) ==
    IF \E o \in DOMAIN workflows : workflows[o].id = workflow_id
    THEN [source |-> "active", id |-> workflow_id,
          status |-> workflows[CHOOSE o \in DOMAIN workflows :
                                  workflows[o].id = workflow_id].status]
    ELSE [source |-> "none", id |-> workflow_id,
          status |-> "Workflow not found"]

WorkflowStatus(workflow_id) ==
    IF workflow_id \in DOMAIN active_workflows
    THEN [source |-> "active", id |-> workflow_id,
          status |-> workflows[active_workflows[workflow_id]].status]
    ELSE IF \E h \in DOMAIN workflow_history :
                workflow_history[h].workflow_id = workflow_id
    THEN LET first == CHOOSE h \in DOMAIN workflow_history :
                          /\ workflow_history[h].workflow_id = workflow_id
                          /\ \A g \in 1..(h - 1) :
                                 workflow_history[g].workflow_id /= workflow_id
         IN  [source |-> "history", id |-> workflow_id,
              status |-> workflow_history[first].status]
    ELSE [source |-> "none", id |-> workflow_id,
          status |-> "Workflow not found"]

GetWorkflowStatus(workflow_id) ==
    /\ reply' = WorkflowStatus(workflow_id)
    /\ UNCHANGED <<orchestratorVars, aggregator, planner>>

(***************************************************************************)
(* _aggregate_results on its own: any results dict of up to MaxAggResults  *)
(* agents, each failed or completed with an assessment that reports a risk *)
(* level or none and a compliance status or none, among them a risk level  *)
(* outside the ranking ("unrated") and a status outside the three          *)
(* ("exempt").                                                             *)
(***************************************************************************)
Absent == "absent"

RiskValues == {"critical", "high", "medium", "low", "unrated"}

ComplianceValues == {"compliant", "partial", "non_compliant", "exempt"}

Assessment(risk, compliance) ==
    [key \in (IF risk = Absent THEN {} ELSE {"risk_level"})
             \cup (IF compliance = Absent THEN {}
                                          ELSE {"compliance_status"}) |->
        IF key = "risk_level" THEN risk ELSE compliance]

\* How an agent's task can have ended: completed with any assessment, or
\* failed, with the dict of _execute_single_task or with a dict of the
\* agent's own that carries an assessment all the same.
AggOutcomes ==
    {[status |-> "failed", assessment_data |-> EmptyMap],
     [status |-> "failed",
      assessment_data |-> Assessment("critical", "non_compliant")]} \cup
    {[status |-> "completed", assessment_data |-> Assessment(r, c)] :
        r \in RiskValues \cup {Absent}, c \in ComplianceValues \cup {Absent}}

AgentOrder == <<"risk_agent", "bias_agent", "policy_agent", "audit_agent",
                "liability_protection_agent">>

\* The results dict in which agent a ended as outcomes[a] says.
AggResults(outcomes) ==
    [a \in DOMAIN outcomes |->
        IF outcomes[a].status = "failed"
        THEN [Failed(a, 1) EXCEPT
                 !.assessment_data = outcomes[a].assessment_data]
        ELSE Completed(a, outcomes[a].assessment_data)]

NoAssessment == [overall_status |-> "none"]

AggIdle ==
    [pc |-> "idle", agent_results |-> EmptyMap, assessment |-> NoAssessment]

Aggregate ==
    /\ aggregator.pc = "called"
    /\ aggregator' =
           [aggregator EXCEPT
               !.pc = "returned",
               !.assessment = AggregateResults(aggregator.agent_results,
                                               "comprehensive_assessment")]
    /\ UNCHANGED <<orchestratorVars, reply, planner>>

OrchestratorInit ==
    /\ now = 0
    /\ workflows = << >>
    /\ active_workflows = EmptyMap
    /\ workflow_history = << >>
    /\ calls = [c \in 1..MaxCalls |-> IdleCall]
    /\ jobs = {}
    /\ faults = 0
    /\ audit_log = << >>
    /\ reply = NoReply

InitPlan ==
    /\ OrchestratorInit
    /\ agents = StandardAgents
    /\ aggregator = AggIdle
    /\ planner \in {PlanStart(tasks) : tasks \in PlanTaskLists}

InitAggregate ==
    /\ OrchestratorInit
    /\ agents = StandardAgents
    /\ planner = PlanIdle
    /\ \E n \in 0..MaxAggResults :
           \E outcomes \in [{AgentOrder[i] : i \in 1..n} -> AggOutcomes] :
               aggregator = [AggIdle EXCEPT
                                !.pc = "called",
                                !.agent_results = AggResults(outcomes)]

NextAggregate == Aggregate

SpecAggregate == InitAggregate /\ [][NextAggregate]_vars

NextPlan == PlanIterate \/ PlanReturn

SpecPlan == InitPlan /\ [][NextPlan]_vars

KnownIds == {workflows[o].id : o \in DOMAIN workflows}

Init ==
    /\ OrchestratorInit
    /\ agents = StandardAgents
    /\ aggregator = AggIdle
    /\ planner = PlanIdle

Next ==
    \/ \E t \in WorkflowTypes, ctx \in SystemContexts, ts \in 0..MaxClock :
           /\ CreateWorkflow(t, ctx, None, ts)
           /\ TotalTasks(workflows') <= MaxTasks
           /\ UNCHANGED reply
    \/ \E l \in CustomAgentLists, ctx \in SystemContexts, ts \in 0..MaxClock :
           /\ CreateWorkflow("comprehensive_assessment", ctx, {l}, ts)
           /\ TotalTasks(workflows') <= MaxTasks
           /\ UNCHANGED reply
    \/ \E c \in 1..MaxCalls, id \in KnownIds :
           ExecuteWorkflow(c, id) /\ UNCHANGED reply
    \/ \E j \in jobs, outcome \in {"completed", "raise"} :
           Invoke(j, outcome) /\ UNCHANGED reply
    \/ \E c \in 1..MaxCalls : Timeout(c) /\ UNCHANGED reply
    \/ \E c \in 1..MaxCalls : Cleanup(c) /\ UNCHANGED reply
    \/ \E id \in KnownIds : CancelWorkflow(id) /\ UNCHANGED reply

Spec == Init /\ [][Next]_vars

(***************************************************************************)
(* The orchestrators of the factory that register only some of the agents, *)
(* with custom agent lists that name an agent that is not registered and   *)
(* with the status query.  An operation invalidates the reply of the query *)
(* before it.                                                              *)
(***************************************************************************)
Registries ==
    {{"risk_agent"}, {"policy_agent", "audit_agent"},
     {"risk_agent", "bias_agent", "liability_protection_agent"}}

LifecycleTypes == {"comprehensive_assessment"}

LifecycleAgentLists ==
    {<< >>, <<"unregistered_agent">>, <<"risk_agent", "unregistered_agent">>}

UnknownId == <<MaxClock + 1, 0>>

InitLifecycle ==
    /\ OrchestratorInit
    /\ agents \in {[a \in r |-> "agent_a"] : r \in Registries}
    /\ aggregator = AggIdle
    /\ planner = PlanIdle

NextLifecycle ==
    \/ \E t \in LifecycleTypes, ctx \in SystemContexts, ts \in 0..MaxClock :
           /\ CreateWorkflow(t, ctx, None, ts)
           /\ TotalTasks(workflows') <= MaxLifecycleTasks
           /\ reply' = NoReply
    \/ \E l \in LifecycleAgentLists, ctx \in SystemContexts, ts \in 0..MaxClock :
           /\ CreateWorkflow("comprehensive_assessment", ctx, {l}, ts)
           /\ TotalTasks(workflows') <= MaxLifecycleTasks
           /\ reply' = NoReply
    \/ \E c \in 1..MaxCalls, id \in KnownIds :
           ExecuteWorkflow(c, id) /\ reply' = NoReply
    \/ \E j \in jobs, outcome \in {"completed", "raise"} :
           Invoke(j, outcome) /\ reply' = NoReply
    \/ \E c \in 1..MaxCalls : Timeout(c) /\ reply' = NoReply
    \/ \E c \in 1..MaxCalls : Cleanup(c) /\ reply' = NoReply
    \/ \E id \in KnownIds : CancelWorkflow(id) /\ reply' = NoReply
    \/ \E id \in KnownIds \cup {UnknownId} : GetWorkflowStatus(id)

SpecLifecycle == InitLifecycle /\ [][NextLifecycle]_vars

(***************************************************************************)
(* The worker pool: workflows whose single level has more than one task,   *)
(* together more tasks than the executor has workers.  Here a job is       *)
(* taken from the work queue in one step and its agent invoked in later    *)
(* ones, so that the jobs running at the same time can be counted.  The    *)
(* agents answer within the timeout of their level.                        *)
(***************************************************************************)
MaxPoolTasks == 6
MaxPoolFaults == 1

PoolAgentLists ==
    {<<"risk_agent", "bias_agent", "policy_agent">>,
     <<"risk_agent", "bias_agent", "policy_agent", "audit_agent",
       "liability_protection_agent", "risk_agent">>}

NextPool ==
    \/ \E l \in PoolAgentLists, ctx \in SystemContexts, ts \in 0..MaxClock :
           /\ CreateWorkflow("comprehensive_assessment", ctx, {l}, ts)
           /\ TotalTasks(workflows') <= MaxPoolTasks
           /\ UNCHANGED reply
    \/ \E c \in 1..MaxCalls, id \in KnownIds :
           ExecuteWorkflow(c, id) /\ UNCHANGED reply
    \/ \E j \in jobs : Start(j) /\ UNCHANGED reply
    \/ \E j \in jobs, outcome \in {"completed", "failed", "raise"} :
           /\ j.state = "running"
           /\ outcome = "raise" => faults < MaxPoolFaults
           /\ Invoke(j, outcome)
           /\ UNCHANGED reply
    \/ \E c \in 1..MaxCalls : Cleanup(c) /\ UNCHANGED reply

SpecPool == Init /\ [][NextPool]_vars

\* The worker pool with its scheduling, for agents that return a completed
\* result or raise.
TakeJob == \E j \in jobs : Start(j) /\ UNCHANGED reply

EndInvocation ==
    \E j \in jobs, outcome \in {"completed", "raise"} :
        /\ j.state = "running"
        /\ outcome = "raise" => faults < MaxPoolFaults
        /\ Invoke(j, outcome)
        /\ UNCHANGED reply

LeaveCall == \E c \in 1..MaxCalls : Cleanup(c) /\ UNCHANGED reply

NextPoolLive ==
    \/ \E l \in PoolAgentLists, ctx \in SystemContexts, ts \in 0..MaxClock :
           /\ CreateWorkflow("comprehensive_assessment", ctx, {l}, ts)
           /\ TotalTasks(workflows') <= MaxPoolTasks
           /\ UNCHANGED reply
    \/ \E c \in 1..MaxCalls, id \in KnownIds :
           ExecuteWorkflow(c, id) /\ UNCHANGED reply
    \/ TakeJob
    \/ EndInvocation
    \/ LeaveCall

\* The scheduling: a free worker takes a job from the queue, the invocation
\* of an agent comes to an end (it returns or it raises), and the thread
\* of a caller goes on after the last level.  Nothing obliges the callers
\* to create or to execute a workflow.
PoolFairness ==
    /\ WF_vars(TakeJob)
    /\ WF_vars(EndInvocation)
    /\ WF_vars(LeaveCall)

SpecPoolLive == Init /\ [][NextPoolLive]_vars /\ PoolFairness

(***************************************************************************)
(* The registry: an orchestrator as __init__ leaves it, on which agents    *)
(* are registered and registered again, workflows created and cancelled,   *)
(* and the health of the agents checked.                                   *)
(***************************************************************************)
RegistryNames == {"risk_agent", "liability_protection_agent"}

RegistryTypes == {"risk_focused", "rapid_screening"}

InitRegistry ==
    /\ OrchestratorInit
    /\ agents = EmptyMap
    /\ aggregator = AggIdle
    /\ planner = PlanIdle

NextRegistry ==
    \/ \E a \in RegistryNames, i \in AgentInstances \cup {NotAnAgent} :
           RegisterAgent(a, i)
    \/ \E health \in [DOMAIN agents -> HealthOutcomes] : HealthCheck(health)
    \/ \E t \in RegistryTypes, ctx \in SystemContexts, ts \in 0..MaxClock :
           /\ CreateWorkflow(t, ctx, None, ts)
           /\ TotalTasks(workflows') <= MaxTasks
           /\ reply' = NoReply
    \/ \E id \in KnownIds : CancelWorkflow(id) /\ reply' = NoReply

SpecRegistry == InitRegistry /\ [][NextRegistry]_vars

(***************************************************************************)
(* Properties.                                                             *)
(***************************************************************************)

\* The tasks of a workflow held by call record cr.
TasksOf(cr) == workflows[cr.obj].tasks

\* The level of plan that holds task index k.
LevelOf(plan, k) ==
    CHOOSE l \in DOMAIN plan : \E i \in DOMAIN plan[l] : plan[l][i] = k

\* Every task of the levels before level l of call cr has a terminal Result
\* in the results dict of _execute_tasks.
LevelsStoredBefore(cr, l) ==
    \A m \in 1..(l - 1) : \A i \in DOMAIN cr.plan[m] :
        LET a == TasksOf(cr)[cr.plan[m][i]].agent_type
        IN  /\ a \in DOMAIN cr.results
            /\ cr.results[a].status \in {"completed", "failed"}

\* C1: within execute_workflow, a task of level N+1 is submitted or run
\* (so its agent can be invoked) only when every task of the levels up to N
\* has a terminal Result in the results map, also when level N ran on the
\* worker pool.
C1_LevelsAreSequential ==
    \A j \in jobs :
        calls[j.call].pc = "executing" =>
            LevelsStoredBefore(calls[j.call],
                               LevelOf(calls[j.call].plan, j.task))

\* C1 witness: a job of a level that follows a level of several tasks.
C1_Witness ==
    \E j \in jobs :
        LET cr == calls[j.call]
        IN  /\ cr.pc = "executing"
            /\ LevelOf(cr.plan, j.task) >= 2
            /\ Len(cr.plan[LevelOf(cr.plan, j.task) - 1]) > 1

\* The agent names of the levels before level l of the planner's output.
AgentsBefore(st, l) ==
    UNION {{st.tasks[st.execution_levels[m][i]].agent_type :
                i \in DOMAIN st.execution_levels[m]} : m \in 1..(l - 1)}

\* C2: in a plan built without the fallback, every dependency of a task of
\* level i is the agent of a task of some earlier level.
C2_DependenciesInEarlierLevels ==
    ~planner.fallback =>
        \A l \in DOMAIN planner.execution_levels :
            \A i \in DOMAIN planner.execution_levels[l] :
                planner.tasks[planner.execution_levels[l][i]].depends_on
                    \subseteq AgentsBefore(planner, l)

\* C2 witness: a finished plan of three levels, built without the fallback,
\* with a task that has two dependencies.
C2_Witness ==
    /\ planner.pc = "done"
    /\ ~planner.fallback
    /\ Len(planner.execution_levels) = 3
    /\ \E k \in DOMAIN planner.tasks :
           Cardinality(planner.tasks[k].depends_on) = 2

\* How often task index k occurs in the sequence s of indices.
Occurrences(s, k) == Cardinality({i \in DOMAIN s : s[i] = k})

RECURSIVE OccurrencesInLevels(_, _)
OccurrencesInLevels(levels, k) ==
    IF levels = << >> THEN 0
    ELSE Occurrences(Head(levels), k) + OccurrencesInLevels(Tail(levels), k)

\* C3: the planner's loop runs at most len(tasks) times (every iteration
\* takes at least one task from remaining_tasks), no level is empty, and
\* every task is in exactly one place: still remaining, or in one level; so
\* when the loop ends every task is in exactly one level.
C3_PlanTerminatesAndPartitions ==
    /\ planner.iterations <= Len(planner.tasks)
    /\ Len(planner.remaining) <= Len(planner.tasks) - planner.iterations
    /\ \A l \in DOMAIN planner.execution_levels :
           planner.execution_levels[l] /= << >>
    /\ \A k \in DOMAIN planner.tasks :
           Occurrences(planner.remaining, k)
               + OccurrencesInLevels(planner.execution_levels, k) = 1
    /\ planner.pc = "done" => planner.remaining = << >>

\* C3 witness: a finished plan of a list with a dependency cycle, a
\* dependency on a name that is no task, and a repeated agent name.
C3_Witness ==
    /\ planner.pc = "done"
    /\ planner.fallback
    /\ \E i, k \in DOMAIN planner.tasks :
           /\ i /= k
           /\ planner.tasks[i].agent_type = planner.tasks[k].agent_type
    /\ \E i, k \in DOMAIN planner.tasks :
           /\ planner.tasks[i].agent_type /= planner.tasks[k].agent_type
           /\ planner.tasks[i].agent_type \in planner.tasks[k].depends_on
           /\ planner.tasks[k].agent_type \in planner.tasks[i].depends_on
    /\ \E i \in DOMAIN planner.tasks :
           "policy_agent" \in planner.tasks[i].depends_on

\* C4: every WorkflowResult in the history has as many agent results as the
\* workflow has tasks.
C4_OneResultPerTask ==
    \A h \in DOMAIN workflow_history :
        /\ Cardinality(DOMAIN workflow_history[h].agent_results)
               = workflow_history[h].total_agents
        /\ Cardinality(workflow_history[h].agents_executed)
               = workflow_history[h].total_agents

\* C5: a task execution that ends with a failed Result has invoked the
\* agent exactly max_retries + 1 times.
C5_FailedAfterAllRetries ==
    \A c \in DOMAIN calls : \A k \in DOMAIN calls[c].outcomes :
        calls[c].outcomes[k].status = "failed" =>
            calls[c].outcomes[k].attempts = TasksOf(calls[c])[k].max_retries + 1

\* The agents of the tasks of call record cr that ended with status s.
AgentsEnded(cr, s) ==
    {TasksOf(cr)[k].agent_type :
        k \in {x \in DOMAIN cr.outcomes : cr.outcomes[x].status = s}}

\* C6: no execute_workflow call ends with an agent's exception; and at the
\* step that ends the last level of a run in which some agents failed
\* (retries used up) and the others completed, every task of the workflow
\* has run, the workflow is marked completed, the WorkflowResult has status
\* completed and is in the history, failed_agents is the set of the failed
\* agents and agents_consulted the set of the others.
C6_AgentFailureIsData ==
    [][\A c \in DOMAIN calls :
          /\ calls'[c].error /= "AgentError"
          /\ ( /\ calls[c].pc = "executing"
               /\ calls'[c].pc = "cleanup"
               /\ AgentsEnded(calls'[c], "failed") /= {}
               /\ AgentsEnded(calls'[c], "completed") /= {}
               /\ AgentsEnded(calls'[c], "failed")
                      \cap AgentsEnded(calls'[c], "completed") = {} )
             => /\ DOMAIN calls'[c].outcomes = DOMAIN TasksOf(calls[c])
                /\ workflows'[calls'[c].obj].status = "completed"
                /\ calls'[c].result.status = "completed"
                /\ workflow_history' = Append(workflow_history, calls'[c].result)
                /\ calls'[c].result.aggregated_assessment.failed_agents
                       = AgentsEnded(calls'[c], "failed")
                /\ calls'[c].result.aggregated_assessment.agents_consulted
                       = AgentsEnded(calls'[c], "completed")
      ]_vars

\* C6 witness: the levels of a run are done, an agent has failed, and a
\* task that depends on it has completed.
C6_Witness ==
    \E c \in DOMAIN calls :
        /\ calls[c].pc = "cleanup"
        /\ \E k, d \in DOMAIN calls[c].outcomes :
               /\ calls[c].outcomes[d].status = "failed"
               /\ calls[c].outcomes[k].status = "completed"
               /\ TasksOf(calls[c])[d].agent_type
                      \in TasksOf(calls[c])[k].depends_on
        /\ AgentsEnded(calls[c], "failed")
               \cap AgentsEnded(calls[c], "completed") = {}

\* C7: no execute_workflow call ends by raising the timeout of a level.
C7_TimeoutIsContained ==
    \A c \in DOMAIN calls :
        ~(calls[c].pc = "raised" /\ calls[c].error = "TimeoutError")

AllowedTransitions ==
    {<<"created", "running">>, <<"running", "completed">>,
     <<"running", "failed">>, <<"created", "cancelled">>}

\* C8: the status of a workflow changes only along created -> running,
\* running -> completed, running -> failed and created -> cancelled.
C8_OnlyAllowedTransitions ==
    [][\A o \in DOMAIN workflows :
          workflows'[o].status /= workflows[o].status =>
              <<workflows[o].status, workflows'[o].status>>
                  \in AllowedTransitions
      ]_vars

\* C9: when execute_workflow has raised out of its try block, the workflow
\* has status failed, is not in the active registry and is in the history.
C9_FailedWorkflowIsArchived ==
    \A c \in DOMAIN calls :
        (calls[c].pc = "raised" /\ calls[c].error /= "ValueError") =>
            /\ workflows[calls[c].obj].status = "failed"
            /\ calls[c].workflow_id \notin DOMAIN active_workflows
            /\ \E h \in DOMAIN workflow_history :
                   workflow_history[h].workflow_id = calls[c].workflow_id

\* C10: the ids create_workflow has returned are pairwise different.
C10_WorkflowIdsAreUnique ==
    \A i, k \in DOMAIN workflows :
        i /= k => workflows[i].id /= workflows[k].id

\* The entries of the sequence log (history or audit log) for workflow id.
EntriesFor(log, id) == {k \in DOMAIN log : log[k].workflow_id = id}

\* C11: at the step by which execute_workflow returns normally, the
\* workflow id is not in the active registry, the history holds exactly one
\* WorkflowResult for the id, of status completed, and exactly one audit
\* entry for the id has been sent.
C11_ReturnArchivesOnce ==
    [][\A c \in DOMAIN calls :
          (calls[c].pc = "cleanup" /\ calls'[c].pc = "returned") =>
              LET id == calls'[c].workflow_id
              IN  /\ id \notin DOMAIN active_workflows'
                  /\ Cardinality(EntriesFor(workflow_history', id)) = 1
                  /\ \A h \in EntriesFor(workflow_history', id) :
                         workflow_history'[h].status = "completed"
                  /\ Cardinality(EntriesFor(audit_log', id)) = 1
      ]_vars

\* C12: a call of execute_workflow with an id that is not in the active
\* registry ends with the not-found error at once, and the step changes
\* nothing else: no job is started, no agent invoked, and the registry, the
\* workflows, the history and the audit log stay as they are.
C12_NotFoundChangesNothing ==
    [][\A c \in DOMAIN calls :
          ( /\ calls[c].pc = "idle"
            /\ calls'[c].pc /= "idle"
            /\ calls'[c].workflow_id \notin DOMAIN active_workflows )
          => /\ calls'[c].pc = "raised"
             /\ calls'[c].error = "ValueError"
             /\ UNCHANGED <<agents, workflows, active_workflows,
                            workflow_history, audit_log, jobs, faults>>
      ]_vars

\* C12 witness: execute_workflow has raised not-found for the id of a
\* cancelled workflow while another call is executing, with jobs in the
\* pool.
C12_Witness ==
    \E c, b \in DOMAIN calls :
        /\ calls[c].pc = "raised"
        /\ calls[c].error = "ValueError"
        /\ \E o \in DOMAIN workflows :
               /\ workflows[o].id = calls[c].workflow_id
               /\ workflows[o].status = "cancelled"
        /\ calls[b].pc = "executing"
        /\ \E j \in jobs : j.call = b /\ ~j.inline

\* C13: cancel_workflow takes effect exactly on ids of the active registry
\* and removes the id from it; and once a workflow is cancelled it stays
\* cancelled, no execute_workflow call holding it appends to the history,
\* and a call of execute_workflow with its id raises not-found and starts
\* no job.
C13_CancelIsFinal ==
    [][\A o \in DOMAIN workflows :
          /\ (workflows[o].status /= "cancelled"
                  /\ workflows'[o].status = "cancelled")
              => /\ workflows[o].id \in DOMAIN active_workflows
                 /\ workflows[o].id \notin DOMAIN active_workflows'
          /\ workflows[o].status = "cancelled"
              => /\ workflows'[o].status = "cancelled"
                 /\ \A c \in DOMAIN calls :
                        calls[c].obj = o =>
                            ~(calls[c].pc = "executing"
                                 /\ calls'[c].pc = "cleanup")
                 /\ \A c \in DOMAIN calls :
                        ( /\ calls[c].pc = "idle"
                          /\ calls'[c].pc /= "idle"
                          /\ calls'[c].workflow_id = workflows[o].id )
                        => /\ calls'[c].error = "ValueError"
                           /\ jobs' = jobs
      ]_vars

\* What the claim has get_workflow_status return for the id of reply r.
StatusQueryIsFaithful(r) ==
    IF r.id \in DOMAIN active_workflows
    THEN /\ r.source = "active"
         /\ r.status = workflows[active_workflows[r.id]].status
    ELSE IF EntriesFor(workflow_history, r.id) /= {}
    THEN /\ r.source = "history"
         /\ \E h \in EntriesFor(workflow_history, r.id) :
                r.status = workflow_history[h].status
         /\ r.status = "completed"
    ELSE r.source = "none"

\* C14: a step of get_workflow_status changes nothing of the orchestrator,
\* and its reply is the current status for an id of the active registry,
\* the recorded final status for an id in the history, and not-found for
\* any other id (one never created, one of a cancelled workflow).
C14_StatusQuery ==
    [][reply' /= NoReply =>
          /\ UNCHANGED orchestratorVars
          /\ StatusQueryIsFaithful(reply')
      ]_vars

\* C14 witness: the query has answered not-found for the id of a cancelled
\* workflow, while another workflow is in the history.
C14_Witness ==
    /\ reply.source = "none"
    /\ \E o \in DOMAIN workflows :
           /\ workflows[o].id = reply.id
           /\ workflows[o].status = "cancelled"
    /\ workflow_history /= << >>

\* C15: every task of a workflow names a registered agent, and a workflow
\* made with a custom agent list has exactly one task per listed registered
\* name, in the order of the list, each of priority HIGH and without
\* dependencies (so not the tasks of the template).
C15_TasksFollowCustomList ==
    \A o \in DOMAIN workflows :
        LET w == workflows[o]
        IN  /\ \A i \in DOMAIN w.tasks :
                   w.tasks[i].agent_type \in DOMAIN agents
            /\ \A l \in w.custom_agents :
                   LET registered ==
                         SelectSeq(l, LAMBDA a : a \in DOMAIN agents)
                   IN  /\ Len(w.tasks) = Len(registered)
                       /\ \A i \in DOMAIN w.tasks :
                              /\ w.tasks[i].agent_type = registered[i]
                              /\ w.tasks[i].priority = HIGH
                              /\ w.tasks[i].depends_on = {}

\* The levels the claim gives for the plan of each workflow type.
TemplateLevels(workflow_type) ==
    CASE workflow_type = "comprehensive_assessment" ->
           <<{"risk_agent"}, {"bias_agent", "policy_agent"}, {"audit_agent"},
             {"liability_protection_agent"}>>
      [] workflow_type = "risk_focused" ->
           <<{"risk_agent"}, {"liability_protection_agent"}>>
      [] workflow_type = "compliance_check" ->
           <<{"policy_agent"}, {"audit_agent"}>>
      [] workflow_type = "bias_audit" ->
           <<{"bias_agent"}, {"audit_agent"}>>
      [] workflow_type = "rapid_screening" ->
           <<{"risk_agent"}>>

\* The agents of the levels of the plan of call record cr.
PlanAgentLevels(cr) ==
    [l \in DOMAIN cr.plan |->
        {TasksOf(cr)[cr.plan[l][i]].agent_type : i \in DOMAIN cr.plan[l]}]

\* C16: with all five agents registered, the plan execute_workflow builds
\* for a workflow made from a template has the levels of the template, each
\* level with as many tasks as agents, and is built without the fallback.
C16_PlanFollowsTemplate ==
    \A c \in DOMAIN calls :
        (calls[c].pc \in {"executing", "cleanup"}
            /\ workflows[calls[c].obj].custom_agents = None) =>
            /\ PlanAgentLevels(calls[c])
                   = TemplateLevels(workflows[calls[c].obj].type)
            /\ \A l \in DOMAIN calls[c].plan :
                   Len(calls[c].plan[l])
                       = Cardinality(PlanAgentLevels(calls[c])[l])
            /\ ~PlanLoop(PlanStart(TasksOf(calls[c]))).fallback

\* C16 witness: a comprehensive assessment made from the template is
\* executing its level of two tasks.
C16_Witness ==
    \E c \in DOMAIN calls :
        /\ calls[c].pc = "executing"
        /\ workflows[calls[c].obj].custom_agents = None
        /\ workflows[calls[c].obj].type = "comprehensive_assessment"
        /\ calls[c].level = 2
        /\ Len(calls[c].plan[2]) = 2

\* The severity of a risk level in the order critical > high > medium > low
\* (a level outside the order has none).
Severity(x) ==
    CASE x = "critical" -> 4
      [] x = "high"     -> 3
      [] x = "medium"   -> 2
      [] x = "low"      -> 1
      [] OTHER          -> 0

\* The agents of results dict r whose result has status completed.
CompletedIn(r) == {a \in DOMAIN r : r[a].status = "completed"}

\* The values the completed results of r report under key.
ReportedBy(r, key) ==
    {r[a].assessment_data[key] :
        a \in {b \in CompletedIn(r) : key \in DOMAIN r[b].assessment_data}}

\* C17: for a results map with a completed result, overall_risk_level is
\* low when no completed result reports a risk level, and otherwise one of
\* the levels the completed results report, of a severity no lower than
\* that of any level a completed result reports.
C17_OverallRiskIsHighest ==
    (aggregator.pc = "returned"
        /\ CompletedIn(aggregator.agent_results) /= {}) =>
        LET reported == ReportedBy(aggregator.agent_results, "risk_level")
            overall == aggregator.assessment.overall_risk_level
        IN  IF reported = {} THEN overall = "low"
            ELSE /\ overall \in reported
                 /\ \A r \in reported : Severity(overall) >= Severity(r)

\* C17 witness: an aggregation of completed results that report low and
\* high, next to a failed result that carries the level critical.
C17_Witness ==
    /\ aggregator.pc = "returned"
    /\ ReportedBy(aggregator.agent_results, "risk_level") = {"low", "high"}
    /\ \E a \in DOMAIN aggregator.agent_results :
           /\ aggregator.agent_results[a].status = "failed"
           /\ "risk_level" \in DOMAIN aggregator.agent_results[a].assessment_data
           /\ aggregator.agent_results[a].assessment_data["risk_level"]
                  = "critical"
    /\ aggregator.assessment.overall_risk_level = "high"

\* C18: for a results map with a completed result, overall_compliance is
\* non_compliant if a completed result reports non_compliant, else partial
\* if one reports partial, else compliant if a status is reported and all
\* reported statuses are compliant, else unknown.
C18_OverallCompliancePrecedence ==
    (aggregator.pc = "returned"
        /\ CompletedIn(aggregator.agent_results) /= {}) =>
        LET reported ==
              ReportedBy(aggregator.agent_results, "compliance_status")
            overall == aggregator.assessment.overall_compliance
        IN  /\ "non_compliant" \in reported => overall = "non_compliant"
            /\ ("non_compliant" \notin reported /\ "partial" \in reported)
                   => overall = "partial"
            /\ (reported /= {} /\ reported = {"compliant"})
                   => overall = "compliant"
            /\ (reported = {}
                    \/ ( /\ "non_compliant" \notin reported
                         /\ "partial" \notin reported
                         /\ reported /= {"compliant"} ))
                   => overall = "unknown"

\* C18 witness: an aggregation of completed results that report compliant,
\* non_compliant and partial.
C18_Witness ==
    /\ aggregator.pc = "returned"
    /\ ReportedBy(aggregator.agent_results, "compliance_status")
           = {"compliant", "non_compliant", "partial"}
    /\ aggregator.assessment.overall_compliance = "non_compliant"

\* C19: in every WorkflowResult of the history, agents_consulted is the set
\* of the agents whose result is completed and failed_agents the set of the
\* other agents of agent_results.
C19_AgentListsCoverResults ==
    \A h \in DOMAIN workflow_history :
        LET r == workflow_history[h]
            assessment == r.aggregated_assessment
        IN  /\ "agents_consulted" \in DOMAIN assessment
            /\ "failed_agents" \in DOMAIN assessment
            /\ assessment.agents_consulted = CompletedIn(r.agent_results)
            /\ assessment.failed_agents
                   = DOMAIN r.agent_results \ CompletedIn(r.agent_results)

\* C20: when the levels of a run end with no completed result, the
\* assessment has overall_status failed and a message, the workflow is
\* marked completed and the WorkflowResult is appended to the history; and
\* the call then returns that WorkflowResult and takes the workflow out of
\* the active registry, unless the id has been taken out meanwhile.
C20_NoSuccessStillCompletes ==
    [][\A c \in DOMAIN calls :
          /\ ( /\ calls[c].pc /= "cleanup"
               /\ calls'[c].pc = "cleanup"
               /\ CompletedIn(calls'[c].result.agent_results) = {} )
             => /\ calls'[c].result.status = "completed"
                /\ calls'[c].result.aggregated_assessment.overall_status
                       = "failed"
                /\ "message"
                       \in DOMAIN calls'[c].result.aggregated_assessment
                /\ workflows'[calls'[c].obj].status = "completed"
                /\ workflow_history'
                       = Append(workflow_history, calls'[c].result)
          /\ ( /\ calls[c].pc = "cleanup"
               /\ calls'[c] /= calls[c]
               /\ CompletedIn(calls[c].result.agent_results) = {}
               /\ calls[c].workflow_id \in DOMAIN active_workflows )
             => /\ calls'[c].pc = "returned"
                /\ calls'[c].result = calls[c].result
                /\ calls[c].workflow_id \notin DOMAIN active_workflows'
                /\ workflow_history' = workflow_history
      ]_vars

\* C20 witness: one call has returned the WorkflowResult of a run in which
\* every agent failed, another that of a workflow without tasks.
C20_Witness ==
    \E c, b \in DOMAIN calls :
        /\ calls[c].pc = "returned"
        /\ calls[c].result.agent_results /= EmptyMap
        /\ CompletedIn(calls[c].result.agent_results) = {}
        /\ calls[b].pc = "returned"
        /\ calls[b].result.agent_results = EmptyMap

\* C21: a step of register_agent with an instance that is no agent raises
\* and leaves the registry as it is; with an agent it binds the name to the
\* instance, replacing what the name had, and leaves the other names alone,
\* so that registering a pair the registry already holds changes nothing.
C21_RegisterReplaces ==
    [][reply'.source = "register_agent" =>
          LET name == reply'.agent_type
              instance == reply'.agent_instance
          IN  IF instance \notin AgentInstances
              THEN /\ reply'.error = "ValueError"
                   /\ agents' = agents
              ELSE /\ reply'.error = ""
                   /\ DOMAIN agents' = DOMAIN agents \cup {name}
                   /\ agents'[name] = instance
                   /\ \A a \in DOMAIN agents \ {name} : agents'[a] = agents[a]
                   /\ (name \in DOMAIN agents /\ agents[name] = instance)
                          => agents' = agents
      ]_vars

\* C21 witness: register_agent has replaced the instance of a registered
\* name by another one, with a workflow created before.
C21_Witness ==
    /\ reply.source = "register_agent"
    /\ reply.error = ""
    /\ reply.prior = "agent_a"
    /\ agents[reply.agent_type] = "agent_b"
    /\ workflows /= << >>

\* C22: a step of health_check changes nothing of the orchestrator, and
\* its report has one entry per registered agent, unhealthy for an agent
\* whose health check raised or returned False and healthy for the others,
\* total_agents the number of registered agents and healthy_agents the
\* number of the agents reported healthy.
C22_HealthCheckReports ==
    [][reply'.source = "health_check" =>
          /\ UNCHANGED orchestratorVars
          /\ DOMAIN reply'.agent_health = DOMAIN agents
          /\ \A a \in DOMAIN agents :
                 reply'.agent_health[a] = (reply'.outcomes[a] = "true")
          /\ reply'.total_agents = Cardinality(DOMAIN agents)
          /\ reply'.healthy_agents
                 = Cardinality({a \in DOMAIN agents : reply'.agent_health[a]})
          /\ reply'.healthy_agents <= reply'.total_agents
      ]_vars

\* C22 witness: a health check of two registered agents, of which one
\* raised and the other is healthy, with a workflow in the registry.
C22_Witness ==
    /\ reply.source = "health_check"
    /\ \E a, b \in DOMAIN agents :
           /\ reply.outcomes[a] = "raise"
           /\ reply.outcomes[b] = "true"
    /\ reply.healthy_agents = 1
    /\ DOMAIN active_workflows /= {}

\* The execute_workflow calls that take the step: the calls whose position
\* or local state changes and the calls whose jobs change.
Actors ==
    {c \in DOMAIN calls : calls'[c] /= calls[c]}
        \cup {j.call : j \in (jobs \ jobs') \cup (jobs' \ jobs)}

\* C23: a workflow dict (status, task list, retry counts) changes only in
\* a step of an execute_workflow call that holds this very dict, in a retry
\* by a job that such a call has left behind, or in the cancel_workflow of
\* the id it is registered under, which changes its status only; the
\* results a call has collected change only in its own steps, and the
\* WorkflowResults of the history never change.
C23_WorkflowsAreIsolated ==
    [][/\ \A o \in DOMAIN workflows :
             workflows'[o] /= workflows[o] =>
                 \/ /\ Actors /= {}
                    /\ \A c \in Actors : o \in {calls[c].obj, calls'[c].obj}
                 \/ /\ Actors = {}
                    /\ \E j \in jobs :
                           /\ calls[j.call].obj = o
                           /\ workflows'[o] =
                                  [workflows[o] EXCEPT
                                      !.tasks[j.task].retry_count = @ + 1]
                 \/ /\ Actors = {}
                    /\ \E id \in DOMAIN active_workflows :
                           /\ active_workflows[id] = o
                           /\ id \notin DOMAIN active_workflows'
                    /\ workflows'[o] =
                           [workflows[o] EXCEPT !.status = "cancelled"]
       /\ Cardinality(Actors) <= 1
       /\ \A c \in DOMAIN calls :
             (calls'[c].results /= calls[c].results
                  \/ calls'[c].level_results /= calls[c].level_results)
                 => c \in Actors
       /\ Len(workflow_history') >= Len(workflow_history)
       /\ \A h \in DOMAIN workflow_history :
             workflow_history'[h] = workflow_history[h]
      ]_vars

\* C23 witness: two workflows are being executed at the same time, both
\* have a task of the same agent, and the task of one has been retried
\* while the task of the other has not.
C23_Witness ==
    \E c, b \in DOMAIN calls :
        /\ calls[c].pc = "executing"
        /\ calls[b].pc = "executing"
        /\ calls[c].obj /= calls[b].obj
        /\ \E i \in DOMAIN workflows[calls[c].obj].tasks,
              k \in DOMAIN workflows[calls[b].obj].tasks :
               /\ workflows[calls[c].obj].tasks[i].agent_type
                      = workflows[calls[b].obj].tasks[k].agent_type
               /\ workflows[calls[c].obj].tasks[i].retry_count > 0
               /\ workflows[calls[b].obj].tasks[k].retry_count = 0

\* The jobs that occupy a worker of the executor.
OnWorker == {j \in jobs : ~j.inline /\ j.state = "running"}

\* C24: at every moment at most max_workers jobs, counted over all the
\* execute_workflow calls, run on workers of the executor, and a submitted
\* job leaves the work queue only in a step before which a worker is free.
C24_PoolIsBoundedGlobally ==
    [][/\ Cardinality(OnWorker) <= max_workers
       /\ Cardinality(OnWorker') <= max_workers
       /\ \A j \in jobs :
             (j.state = "queued" /\ j \notin jobs')
                 => Cardinality(OnWorker) < max_workers
      ]_vars

\* C24 witness: the jobs of two execute_workflow calls occupy all the
\* workers, and a job of one of the calls waits in the queue.
C24_Witness ==
    /\ Cardinality(OnWorker) = max_workers
    /\ \E j, i \in OnWorker : j.call /= i.call
    /\ \E j \in jobs : j.state = "queued"

\* The agents of the tasks of call record cr in the levels before the level
\* of task k.
EarlierAgents(cr, k) ==
    {TasksOf(cr)[i].agent_type :
        i \in {x \in DOMAIN TasksOf(cr) :
                   \E m, n \in DOMAIN cr.plan :
                       /\ m < n
                       /\ \E y \in DOMAIN cr.plan[m] : cr.plan[m][y] = x
                       /\ \E y \in DOMAIN cr.plan[n] : cr.plan[n][y] = k}}

\* C25: the input of the agent of a task has the entries of the system
\* context of the workflow and, exactly when the task has dependencies,
\* one more, previous_results, whose keys are the names in depends_on and
\* whose value for an agent that ran in an earlier level is the Result
\* recorded for it (None for a name without one); and the system context
\* of the workflow stays what create_workflow was given.
C25_InputIsContextPlusDependencies ==
    /\ \A o \in DOMAIN workflows :
          workflows[o].system_context \in SystemContexts
    /\ \A c \in DOMAIN calls : \A k \in DOMAIN calls[c].outcomes :
          LET cr      == calls[c]
              task    == TasksOf(cr)[k]
              input   == cr.outcomes[k].input
              context == workflows[cr.obj].system_context
          IN  /\ DOMAIN input =
                     DOMAIN context \cup
                         (IF task.depends_on /= {}
                          THEN {"previous_results"} ELSE {})
              /\ \A key \in DOMAIN context : input[key] = context[key]
              /\ task.depends_on /= {} =>
                    /\ DOMAIN input.previous_results = task.depends_on
                    /\ \A dep \in task.depends_on :
                          input.previous_results[dep] =
                              IF dep \in EarlierAgents(cr, k)
                              THEN cr.results[dep]
                              ELSE NoTaskResult

\* C25 witness: the task that depends on the audit agent alone has run
\* with the failed Result of the audit agent as its only previous result,
\* while the call holds the Results of four agents.
C25_Witness ==
    \E c \in DOMAIN calls : \E k \in DOMAIN calls[c].outcomes :
        /\ TasksOf(calls[c])[k].depends_on = {"audit_agent"}
        /\ DOMAIN calls[c].outcomes[k].input.previous_results
               = {"audit_agent"}
        /\ calls[c].outcomes[k].input.previous_results["audit_agent"].status
               = "failed"
        /\ {"risk_agent", "bias_agent", "policy_agent", "audit_agent"}
               \subseteq DOMAIN calls[c].results

\* C26: a failed Result is recorded for a task only when its retries are
\* used up (retry_count = max_retries), whether the last invocation of the
\* agent raised or returned a result with status failed.
C26_FailureIsRetried ==
    \A c \in DOMAIN calls : \A k \in DOMAIN calls[c].outcomes :
        calls[c].outcomes[k].status = "failed" =>
            TasksOf(calls[c])[k].retry_count = TasksOf(calls[c])[k].max_retries

\* C27: while execute_workflow runs and when its last level has ended, the
\* results mapping of the workflow dict holds the Results the call has
\* recorded so far, and the progress counts of the dict add up to their
\* number.
C27_WorkflowResultsFollowRun ==
    \A c \in DOMAIN calls :
        calls[c].pc \in {"executing", "cleanup"} =>
            LET w == workflows[calls[c].obj]
            IN  /\ DOMAIN w.results = DOMAIN calls[c].results
                /\ w.metadata.completed_tasks + w.metadata.failed_tasks
                       = Cardinality(DOMAIN calls[c].results)

\* The task indices in the levels of plan before level n.
PlannedBefore(plan, n) ==
    UNION {{plan[m][i] : i \in DOMAIN plan[m]} : m \in 1..(n - 1)}

\* The tasks still to be planned at level n whose dependencies are all
\* agents of tasks of earlier levels.
ReadyAt(tasks, plan, n) ==
    {k \in DOMAIN tasks \ PlannedBefore(plan, n) :
        tasks[k].depends_on
            \subseteq {tasks[i].agent_type : i \in PlannedBefore(plan, n)}}

\* C28: in the plan of a call, a level is the set of the tasks that are
\* ready at that point, and only if none is ready it is the fallback, which
\* holds all the tasks not yet planned; every task is in exactly one level;
\* and at the step that ends the last level every task of the workflow has
\* one outcome and the workflow is marked completed. This holds also for
\* templates with tasks that depend on an agent that is not registered.
C28_FallbackRunsEveryTask ==
    [][\A c \in DOMAIN calls :
          LET cr    == calls'[c]
              tasks == workflows'[cr.obj].tasks
          IN  /\ cr.pc \in {"executing", "cleanup"} =>
                    /\ \A n \in DOMAIN cr.plan :
                          {cr.plan[n][i] : i \in DOMAIN cr.plan[n]} =
                              IF ReadyAt(tasks, cr.plan, n) /= {}
                              THEN ReadyAt(tasks, cr.plan, n)
                              ELSE DOMAIN tasks \ PlannedBefore(cr.plan, n)
                    /\ \A k \in DOMAIN tasks :
                          OccurrencesInLevels(cr.plan, k) = 1
              /\ (calls[c].pc = "executing" /\ cr.pc = "cleanup") =>
                    /\ DOMAIN cr.outcomes = DOMAIN tasks
                    /\ workflows'[cr.obj].status = "completed"
      ]_vars

\* C28 witness: on an orchestrator without policy and audit agent, a
\* workflow with a task that depends on the audit agent has been run in
\* three levels, the last one the fallback, and is marked completed.
C28_Witness ==
    \E c \in DOMAIN calls :
        /\ calls[c].pc = "cleanup"
        /\ {"policy_agent", "audit_agent"} \cap DOMAIN agents = {}
        /\ Len(calls[c].plan) = 3
        /\ ReadyAt(TasksOf(calls[c]), calls[c].plan, 3) = {}
        /\ \E k \in DOMAIN TasksOf(calls[c]) :
               "audit_agent" \in TasksOf(calls[c])[k].depends_on
        /\ DOMAIN calls[c].outcomes = DOMAIN TasksOf(calls[c])
        /\ workflows[calls[c].obj].status = "completed"

\* C29: an execute_workflow call that has appended its WorkflowResult to
\* the history does not end with an exception, and the workflow dict of a
\* call that has appended it (the call is about to return or has returned)
\* has status completed, whatever cancel_workflow did meanwhile.
C29_CancelDuringExecuteIsConsistent ==
    [][\A c \in DOMAIN calls :
          /\ calls[c].pc = "cleanup" => calls'[c].pc /= "raised"
          /\ calls'[c].pc \in {"cleanup", "returned"} =>
                workflows'[calls'[c].obj].status = "completed"
      ]_vars

====
